---- MODULE Spec2Model ----
(***************************************************************************)
(* State-machine model of src/bot.py (GermanVerbBot): the vocabulary       *)
(* loader, the quiz session manager, the answer grader and the statistics  *)
(* store, driven by the chat events the handlers are registered for.       *)
(*                                                                         *)
(* Python strings are modelled as sequences of one-character strings, so   *)
(* that replace/strip/split/join compute what the code computes.  Python   *)
(* dicts are functions whose DOMAIN is the set of keys present.  A handler *)
(* that raises keeps the mutations made before the raise (the dispatcher   *)
(* logs the exception and goes on with the next update).  Updates are      *)
(* processed one at a time (the Application is built with its default,     *)
(* sequential update processing), so each handler is one action.           *)
(***************************************************************************)
EXTENDS Integers, Sequences, FiniteSets, TLC

VARIABLES
    words_data,    \* self.words_data: unique_key -> entry
    current_quiz,  \* self.current_quiz: user_id -> pending quiz
    user_stats,    \* self.user_stats: user_id -> counters
    load_log,      \* which report the last load printed: "loaded" or "error"
    reply,         \* what the last handler sent back, "raised" if it raised
    tasks,         \* the handlers in flight (coroutines suspended at an await)
    call           \* the call of a pure function under examination

vars == <<words_data, current_quiz, user_stats, load_log, reply, tasks, call>>

----------------------------------------------------------------------------
(* Bounds of the model *)

\* a fetch returns at most this many records
MaxRecords == 2

\* answers are graded while fewer than this many questions were counted
\* over all users
MaxQuestions == 2

----------------------------------------------------------------------------
(* Python values *)

\* Python's None, as a value comparable with strings (sequences)
None == <<"<None>">>

\* the empty string
Empty == << >>

Min(a, b) == IF a < b THEN a ELSE b

----------------------------------------------------------------------------
(* str methods *)

\* str.strip(): drop leading and trailing whitespace
RECURSIVE LStrip(_)
LStrip(s) ==
    IF s # Empty /\ Head(s) = " " THEN LStrip(Tail(s)) ELSE s

RECURSIVE RStrip(_)
RStrip(s) ==
    IF s # Empty /\ s[Len(s)] = " " THEN RStrip(SubSeq(s, 1, Len(s) - 1)) ELSE s

Strip(s) == RStrip(LStrip(s))

\* s.startswith(p)
StartsWith(s, p) == Len(s) >= Len(p) /\ SubSeq(s, 1, Len(p)) = p

\* str.replace(old, new), old non-empty: non-overlapping, left to right
RECURSIVE Replace(_, _, _)
Replace(s, old, new) ==
    IF Len(s) < Len(old) THEN s
    ELSE IF StartsWith(s, old)
         THEN new \o Replace(SubSeq(s, Len(old) + 1, Len(s)), old, new)
         ELSE <<Head(s)>> \o Replace(Tail(s), old, new)

\* sub in s
RECURSIVE Contains(_, _)
Contains(s, sub) ==
    IF Len(s) < Len(sub) THEN FALSE
    ELSE StartsWith(s, sub) \/ Contains(Tail(s), sub)

\* s.split(sep), sep non-empty: the list of parts, empty parts kept
RECURSIVE SplitAcc(_, _, _)
SplitAcc(s, sep, cur) ==
    IF Len(s) < Len(sep) THEN <<cur \o s>>
    ELSE IF StartsWith(s, sep)
         THEN <<cur>> \o SplitAcc(SubSeq(s, Len(sep) + 1, Len(s)), sep, Empty)
         ELSE SplitAcc(Tail(s), sep, Append(cur, Head(s)))

Split(s, sep) == SplitAcc(s, sep, Empty)

\* s.split(): the list of maximal runs of non-whitespace
RECURSIVE SplitWsAcc(_, _)
SplitWsAcc(s, cur) ==
    IF s = Empty THEN (IF cur = Empty THEN << >> ELSE <<cur>>)
    ELSE IF Head(s) = " "
         THEN (IF cur = Empty THEN << >> ELSE <<cur>>) \o SplitWsAcc(Tail(s), Empty)
         ELSE SplitWsAcc(Tail(s), Append(cur, Head(s)))

SplitWs(s) == SplitWsAcc(s, Empty)

\* sep.join(parts)
RECURSIVE Join(_, _)
Join(parts, sep) ==
    IF parts = << >> THEN Empty
    ELSE IF Len(parts) = 1 THEN parts[1]
    ELSE parts[1] \o sep \o Join(Tail(parts), sep)

\* str.upper() on the letters the model's strings use
UpperChar(c) ==
    CASE c = "a" -> "A"
      [] c = "b" -> "B"
      [] c = "c" -> "C"
      [] c = "d" -> "D"
      [] c = "g" -> "G"
      [] c = "x" -> "X"
      [] OTHER -> c

Upper(s) == [i \in 1..Len(s) |-> UpperChar(s[i])]

----------------------------------------------------------------------------
(* parse_preposition_case *)

case_mapping(case_code) ==
    CASE case_code = <<"A">> -> <<"a","c","c","u","s","a","t","i","v","e">>
      [] case_code = <<"D">> -> <<"d","a","t","i","v","e">>
      [] case_code = <<"G">> -> <<"g","e","n","i","t","i","v","e">>
      [] OTHER -> <<"u","n","k","n","o","w","n">>

\* NormalizePrep without "replace('+', ' + ')"
NormalizePrepNoPlusFix(prep_string) ==
    Join(SplitWs(Strip(prep_string)), <<" ">>)

\* the string after "replace('+', ' + ').strip()" and "' '.join(s.split())"
NormalizePrep(prep_string) ==
    Join(SplitWs(Strip(Replace(prep_string, <<"+">>, <<" ","+"," ">>))), <<" ">>)

\* <<preposition, case>>, or <<None, None>>
parse_preposition_case(prep_string) ==
    IF prep_string = Empty \/ prep_string = None THEN <<None, None>>
    ELSE LET norm  == NormalizePrep(prep_string)
             parts == Split(norm, <<" ","+"," ">>)
         IN  IF ~Contains(norm, <<" ","+"," ">>) THEN <<None, None>>
             ELSE IF Len(parts) # 2 THEN <<None, None>>
             ELSE <<Strip(parts[1]), case_mapping(Upper(Strip(parts[2])))>>

----------------------------------------------------------------------------
(* generate_wrong_options *)

\* common_prepositions['accusative'], ['dative'], ['both']
common_accusative ==
    {<<"a","u","f">>, <<"f","ü","r">>, <<"g","e","g","e","n">>, <<"d","u","r","c","h">>, <<"o","h","n","e">>, <<"u","m">>, <<"a","n">>, <<"ü","b","e","r">>}
common_dative ==
    {<<"m","i","t">>, <<"v","o","n">>, <<"z","u">>, <<"b","e","i">>, <<"n","a","c","h">>, <<"a","u","s">>, <<"v","o","r">>, <<"a","n">>}
common_both ==
    {<<"i","n">>, <<"ü","b","e","r">>, <<"u","n","t","e","r">>, <<"z","w","i","s","c","h","e","n">>, <<"n","e","b","e","n">>, <<"h","i","n","t","e","r">>, <<"v","o","r">>}

\* all_preps after the update loop
all_preps == common_accusative \cup common_dative \cup common_both

\* list(all_preps): the set's iteration order is arbitrary; one order is fixed
all_preps_list ==
    <<<<"a","u","f">>, <<"f","ü","r">>, <<"g","e","g","e","n">>, <<"d","u","r","c","h">>, <<"o","h","n","e">>, <<"u","m">>, <<"a","n">>, <<"ü","b","e","r">>, <<"m","i","t">>, <<"v","o","n">>, <<"z","u">>, <<"b","e","i">>, <<"n","a","c","h">>,
      <<"a","u","s">>, <<"v","o","r">>, <<"i","n">>, <<"u","n","t","e","r">>, <<"z","w","i","s","c","h","e","n">>, <<"n","e","b","e","n">>, <<"h","i","n","t","e","r">>>>

\* the outcomes of random.sample(population, k) the model draws: sequences of
\* distinct positions of the population
RandomDraws == {<<1, 2, 3>>, <<19, 7, 4>>}

\* generate_wrong_options without "all_preps.discard(correct_preposition)"
generate_wrong_optionsNoDiscard(correct_preposition, rnd) ==
    LET population == all_preps_list
        k == Min(3, Len(population))
    IN  [i \in 1..k |-> population[rnd[i]]]

\* rnd: the positions random.sample picks
generate_wrong_options(correct_preposition, rnd) ==
    LET population == SelectSeq(all_preps_list, LAMBDA x : x # correct_preposition)
        k == Min(3, Len(population))
    IN  [i \in 1..k |-> population[rnd[i]]]

----------------------------------------------------------------------------
(* create_example_sentence *)

create_example_sentence(word, preposition, english_translation) ==
    IF english_translation # Empty
    THEN <<"I"," ">> \o english_translation \o <<" ","s","o","m","e","t","h","i","n","g","."," ","(","I","c","h"," ">> \o word \o <<" ">>
         \o preposition \o <<" ","e","t","w","a","s",".",")">>
    ELSE <<"I","c","h"," ">> \o word \o <<" ">> \o preposition \o <<" ","e","t","w","a","s",".">>

----------------------------------------------------------------------------
(* Python dicts and the values of a record's fields *)

EmptyDict == << >>

DictSet(d, k, v) == [x \in DOMAIN d \cup {k} |-> IF x = k THEN v ELSE d[x]]

\* DictDel emptying the dict ("d.clear()" for "del d[k]")
DictDelAll(d, k) == EmptyDict

DictDel(d, k) == [x \in DOMAIN d \ {k} |-> d[x]]

\* a field's value: a string, None, or a dict with 'value' / 'text' sub-fields
PyStr(s) == [kind |-> "str", val |-> s]
PyNone == [kind |-> "none"]
PyDict(d) == [kind |-> "dict", val |-> d]

\* Python truthiness of a field's value
Truthy(v) ==
    CASE v.kind = "none" -> FALSE
      [] v.kind = "str"  -> v.val # Empty
      [] v.kind = "dict" -> DOMAIN v.val # {}

\* d.get(k, '') of a dict of strings
GetOrEmpty(d, k) == IF k \in DOMAIN d THEN d[k] ELSE Empty

\* lines 129-132 and 134-137: fields.get(name, ''), a dict flattened to its
\* 'value' or else its 'text', then "str(x).strip() if x else ''"
ExtractText(fields, name) ==
    LET raw  == IF name \in DOMAIN fields THEN fields[name] ELSE PyStr(Empty)
        flat == IF raw.kind = "dict"
                THEN PyStr(IF GetOrEmpty(raw.val, "value") # Empty
                           THEN GetOrEmpty(raw.val, "value")
                           ELSE GetOrEmpty(raw.val, "text"))
                ELSE raw
    IN  IF Truthy(flat) THEN Strip(flat.val) ELSE Empty

\* RequiredText without ".strip()"
RequiredTextNoStrip(fields, name) ==
    IF Truthy(fields[name]) THEN fields[name].val ELSE Empty

\* "str(fields[name]).strip() if fields[name] else ''" of a required field
RequiredText(fields, name) ==
    IF Truthy(fields[name]) THEN Strip(fields[name].val) ELSE Empty

----------------------------------------------------------------------------
(* load_words_from_airtable *)

\* lines 156-161
Difficulty(word) ==
    IF \E i \in 1..Len(word) : word[i] \in {"ä", "ö", "ü"} THEN "advanced"
    ELSE IF StartsWith(word, <<"s","i","c","h"," ">>) \/ Len(word) > 8 THEN "intermediate"
    ELSE "beginner"

\* the body of the loop over the records (lines 106-177); acc is
\* [words_data, skipped_count], rnd what random.sample draws for this record
LoadRecord(acc, record, rnd) ==
    LET fields  == record.fields
        skipped == [acc EXCEPT !.skipped_count = @ + 1]
    IN  IF "Word" \notin DOMAIN fields \/ "Preposition" \notin DOMAIN fields
        THEN skipped
        ELSE
        LET word        == RequiredText(fields, "Word")
            prep_string == RequiredText(fields, "Preposition")
        IN  IF word = Empty \/ prep_string = Empty THEN skipped
            ELSE
            LET english_translation == ExtractText(fields, "English Translation")
                example_de  == ExtractText(fields, "Example DE")
                parsed      == parse_preposition_case(prep_string)
                preposition == parsed[1]
                case        == parsed[2]
            IN  IF preposition = None \/ preposition = Empty
                   \/ case = None \/ case = Empty
                THEN skipped
                ELSE
                LET unique_key == word \o <<"_">> \o preposition
                    entry ==
                      [word |-> word,
                       preposition |-> preposition,
                       case |-> case,
                       example |-> IF example_de # Empty THEN example_de
                                   ELSE create_example_sentence(
                                            word, preposition, english_translation),
                       wrong_options |-> generate_wrong_options(preposition, rnd),
                       difficulty |-> Difficulty(word),
                       english_translation |-> english_translation,
                       example_de |-> example_de,
                       original_prep_format |-> prep_string,
                       record_id |-> record.id]
                IN  [acc EXCEPT !.words_data = DictSet(@, unique_key, entry)]

RECURSIVE LoadLoop(_, _, _)
LoadLoop(acc, records, rnd) ==
    IF records = << >> THEN acc
    ELSE LoadLoop(LoadRecord(acc, Head(records), rnd), Tail(records), rnd)

\* the dict the except branch returns (lines 187-197)
FallbackData ==
    [k \in {<<"a","c","h","t","e","n">>} |->
        [preposition |-> <<"a","u","f">>,
         case |-> <<"a","c","c","u","s","a","t","i","v","e">>,
         example |-> <<"I"," ","p","a","y"," ","a","t","t","e","n","t","i","o","n"," ","t","o"," ","s","o","m","e","t","h","i","n","g","."," ","(","I","c","h"," ","a","c","h","t","e"," ","a","u","f"," ","e","t","w","a","s",".",")">>,
         wrong_options |-> <<<<"f","ü","r">>, <<"m","i","t">>, <<"ü","b","e","r">>>>,
         difficulty |-> "beginner",
         english_translation |-> <<"p","a","y"," ","a","t","t","e","n","t","i","o","n"," ","t","o">>,
         original_prep_format |-> <<"a","u","f"," ","+"," ","A">>]]

\* LoadReport with an except branch that returns an empty dict
LoadReportEmptyFallback(fetch, rnd) ==
    IF fetch.ok
    THEN LET acc == LoadLoop([words_data |-> EmptyDict, skipped_count |-> 0],
                             fetch.records, rnd)
         IN  [words_data |-> acc.words_data, skipped_count |-> acc.skipped_count,
              total |-> Len(fetch.records), failed |-> FALSE]
    ELSE [words_data |-> EmptyDict, skipped_count |-> 0, total |-> 0,
          failed |-> TRUE]

\* fetch: what self.verbs_table.all() does, [ok |-> TRUE, records |-> ...] or
\* [ok |-> FALSE] when it raises.  The result is [words_data, skipped_count,
\* total, failed]; the function returns its words_data and prints the rest.
LoadReport(fetch, rnd) ==
    IF fetch.ok
    THEN LET acc == LoadLoop([words_data |-> EmptyDict, skipped_count |-> 0],
                             fetch.records, rnd)
         IN  [words_data |-> acc.words_data, skipped_count |-> acc.skipped_count,
              total |-> Len(fetch.records), failed |-> FALSE]
    ELSE [words_data |-> FallbackData, skipped_count |-> 0, total |-> 0,
          failed |-> TRUE]

load_words_from_airtable(fetch, rnd) == LoadReport(fetch, rnd).words_data

----------------------------------------------------------------------------
(* The inputs of the model: users, fetched records, clicked buttons *)

Users == {"u1", "u2"}

Rec1 == [id |-> "rec1",
         fields |-> [f \in {"Word", "Preposition", "Example DE"} |->
                       CASE f = "Word" -> PyStr(<<"d","e","n","k","e","n">>)
                         [] f = "Preposition" -> PyStr(<<"a","n"," ","+"," ","A">>)
                         [] f = "Example DE" -> PyStr(<<"I","c","h"," ","d","e","n","k","e"," ","a","n"," ","d","i","c","h",".">>)]]

Rec2 == [id |-> "rec2",
         fields |-> [f \in {"Word", "Preposition", "English Translation"} |->
                       CASE f = "Word" -> PyStr(<<" ","d","e","n","k","e","n"," ">>)
                         [] f = "Preposition" -> PyStr(<<"ü","b","e","r","+","A">>)
                         [] f = "English Translation" ->
                                PyDict([k \in {"text"} |-> <<"t","h","i","n","k">>])]]

Rec3 == [id |-> "rec3",
         fields |-> [f \in {"Word", "Preposition", "English Translation", "Example DE"} |->
                       CASE f = "Word" -> PyStr(<<"w","a","r","t","e","n">>)
                         [] f = "Preposition" -> PyStr(<<"a","u","f"," ","+"," ","a">>)
                         [] f = "English Translation" -> PyStr(<<"w","a","i","t">>)
                         [] f = "Example DE" -> PyNone]]

\* no Preposition field
Rec4 == [id |-> "rec4",
         fields |-> [f \in {"Word"} |-> PyStr(<<"a","c","h","t","e","n">>)]]

\* a notation without separator
Rec5 == [id |-> "rec5",
         fields |-> [f \in {"Word", "Preposition"} |->
                       CASE f = "Word" -> PyStr(<<"a","c","h","t","e","n">>)
                         [] f = "Preposition" -> PyStr(<<"a","u","f">>)]]

RecordPool == {Rec1, Rec2, Rec3, Rec4, Rec5}

RecordLists == UNION {[1..n -> RecordPool] : n \in 0..MaxRecords}

\* what self.verbs_table.all() can do: return a list of records, or raise
FetchResults ==
    {[ok |-> FALSE]} \cup {[ok |-> TRUE, records |-> r] : r \in RecordLists}

\* every outcome of one load: the dict returned and whether the except branch ran
LoadOutcomes ==
    {[words_data |-> LoadReport(f, rnd).words_data, failed |-> LoadReport(f, rnd).failed] :
        f \in FetchResults, rnd \in RandomDraws}

\* the callback_data of the buttons the bot sends
AnswerPreps == {<<"a","n">>, <<"ü","b","e","r">>, <<"a","u","f">>, <<"m","i","t">>}

ClickData ==
    {<<"q","u","i","z","_","b","e","g","i","n","n","e","r">>, <<"s","h","o","w","_","s","t","a","t","s">>, <<"h","e","l","p">>} \cup {<<"a","n","s","w","e","r","_">> \o p : p \in AnswerPreps}

----------------------------------------------------------------------------
(* State after __init__ *)

\* no handler is suspended: every update is processed to completion
NoTasks == << >>

\* no pure function is under examination
NoCall == [fn |-> "none"]

Init ==
    /\ \E o \in LoadOutcomes :
          /\ words_data = o.words_data
          /\ load_log = IF o.failed THEN "error" ELSE "loaded"
    /\ current_quiz = EmptyDict
    /\ user_stats = EmptyDict
    /\ reply = "none"
    /\ tasks = NoTasks
    /\ call = NoCall

----------------------------------------------------------------------------
(* Statistics *)

NewStats == [total_questions |-> 0, correct_answers |-> 0, streak |-> 0,
             best_streak |-> 0]

\* InitStats without the membership test: the record is reset on every click
InitStatsAlways(stats, user_id) == DictSet(stats, user_id, NewStats)

\* "if user_id not in self.user_stats: self.user_stats[user_id] = {...}"
InitStats(stats, user_id) ==
    IF user_id \in DOMAIN stats THEN stats ELSE DictSet(stats, user_id, NewStats)

RECURSIVE SumQuestions(_, _)
SumQuestions(stats, us) ==
    IF us = {} THEN 0
    ELSE LET u == CHOOSE x \in us : TRUE
         IN  stats[u].total_questions + SumQuestions(stats, us \ {u})

\* the questions counted so far, over all users
QuestionsCounted == SumQuestions(user_stats, DOMAIN user_stats)

----------------------------------------------------------------------------
(* start_quiz *)

\* the dict stored in self.current_quiz[user_id] (lines 339-347)
Snapshot(word_data) ==
    [word |-> word_data.word,
     correct_preposition |-> word_data.preposition,
     example |-> word_data.example,
     case |-> word_data.case,
     original_prep_format |-> word_data.original_prep_format,
     english_translation |-> IF "english_translation" \in DOMAIN word_data
                             THEN word_data.english_translation ELSE Empty,
     example_de |-> IF "example_de" \in DOMAIN word_data
                    THEN word_data.example_de ELSE Empty]

\* whether start_quiz raises once random.choice picked unique_key: the entry
\* has no 'word' (KeyError, line 328)
StartQuizRaises(word_data) == "word" \notin DOMAIN word_data

\* start_quiz(update) for user_id: random.choice raises IndexError on an empty
\* dict; otherwise any key may be drawn
start_quiz(user_id) ==
    IF DOMAIN words_data = {}
    THEN /\ current_quiz' = current_quiz
         /\ reply' = "raised"
    ELSE \E unique_key \in DOMAIN words_data :
            LET word_data == words_data[unique_key]
            IN  IF StartQuizRaises(word_data)
                THEN /\ current_quiz' = current_quiz
                     /\ reply' = "raised"
                ELSE /\ current_quiz' = DictSet(current_quiz, user_id, Snapshot(word_data))
                     /\ reply' = "quiz"

----------------------------------------------------------------------------
(* handle_quiz_answer *)

\* get_alternative_prepositions raises KeyError at data['word'] (line 79) when
\* an entry of the dict has no 'word': the loop visits every entry
AlternativesRaise(wd) == \E key \in DOMAIN wd : "word" \notin DOMAIN wd[key]

\* the alternatives list, as the set of its elements
get_alternative_prepositions(wd, word, current_preposition) ==
    {[preposition |-> wd[key].preposition,
      prep_format |-> wd[key].original_prep_format,
      example |-> IF wd[key].example_de # Empty THEN wd[key].example_de
                  ELSE wd[key].example,
      english |-> wd[key].english_translation] :
        key \in {k \in DOMAIN wd : /\ wd[k].word = word
                                   /\ wd[k].preposition # current_preposition}}

\* StreakUpdate without the best_streak update of lines 431-432
StreakUpdateKeepsBest(st) ==
    [st EXCEPT !.correct_answers = @ + 1, !.streak = @ + 1]

\* StreakUpdate without the correct_answers increment of lines 429, 455
StreakUpdateNoCorrect(st) ==
    LET s == st.streak + 1
    IN  [st EXCEPT !.streak = s,
                   !.best_streak = IF s > @ THEN s ELSE @]

\* lines 429-432 and 455-458
StreakUpdate(st) ==
    LET s == st.streak + 1
    IN  [st EXCEPT !.correct_answers = @ + 1,
                   !.streak = s,
                   !.best_streak = IF s > @ THEN s ELSE @]

\* line 485
StreakReset(st) == [st EXCEPT !.streak = 0]

\* the branch of lines 428, 453, 484
Grade(is_correct, user_found_alternative) ==
    IF is_correct THEN "correct"
    ELSE IF user_found_alternative THEN "alternative"
    ELSE "incorrect"

\* handle_quiz_answer(query, user_id), stats being self.user_stats as
\* handle_button_click left it
handle_quiz_answer(data, user_id, stats) ==
    IF user_id \notin DOMAIN current_quiz
    THEN /\ reply' = "no_session"
         /\ user_stats' = stats
         /\ current_quiz' = current_quiz
    ELSE
    LET quiz_data   == current_quiz[user_id]
        user_answer == Replace(data, <<"a","n","s","w","e","r","_">>, Empty)
        counted     == [stats EXCEPT ![user_id].total_questions = @ + 1]
        is_correct  == user_answer = quiz_data.correct_preposition
    IN  IF AlternativesRaise(words_data)
        THEN /\ reply' = "raised"
             /\ user_stats' = counted
             /\ current_quiz' = current_quiz
        ELSE
        LET alternatives == get_alternative_prepositions(
                                words_data, quiz_data.word,
                                quiz_data.correct_preposition)
            user_found_alternative ==
                \E alt \in alternatives : alt.preposition = user_answer
            outcome == Grade(is_correct, user_found_alternative)
        IN  /\ reply' = outcome
            /\ user_stats' =
                 [counted EXCEPT ![user_id] =
                     IF outcome = "incorrect" THEN StreakReset(@)
                     ELSE StreakUpdate(@)]
            /\ current_quiz' = DictDel(current_quiz, user_id)

----------------------------------------------------------------------------
(* The handlers *)

\* /start
Start(user_id) ==
    /\ user_stats' = InitStats(user_stats, user_id)
    /\ reply' = "welcome"
    /\ UNCHANGED <<words_data, current_quiz, load_log, tasks, call>>

\* /quiz
Quiz(user_id) ==
    /\ start_quiz(user_id)
    /\ UNCHANGED <<words_data, user_stats, load_log, tasks, call>>

\* /help: hasattr(update, 'callback_query') holds of every update, and the
\* callback_query of a command update is None: the edit raises AttributeError
Help(user_id) ==
    /\ reply' = "raised"
    /\ UNCHANGED <<words_data, current_quiz, user_stats, load_log, tasks, call>>

\* /stats: the record is created, then the edit raises as in /help
Stats(user_id) ==
    /\ user_stats' = InitStats(user_stats, user_id)
    /\ reply' = "raised"
    /\ UNCHANGED <<words_data, current_quiz, load_log, tasks, call>>

\* /refresh: refresh_data, refresh_words_data and the load it runs; the
\* handler reads no user id
Refresh ==
    /\ \E o \in LoadOutcomes :
          /\ words_data' = o.words_data
          /\ load_log' = IF o.failed THEN "error" ELSE "loaded"
    /\ reply' = "refreshed"
    /\ UNCHANGED <<current_quiz, user_stats, tasks, call>>

\* a button click with callback_data data (handle_button_click)
ButtonClick(user_id, data) ==
    LET stats == InitStats(user_stats, user_id)
    IN  /\ (StartsWith(data, <<"a","n","s","w","e","r","_">>) /\ user_id \in DOMAIN current_quiz)
              => QuestionsCounted < MaxQuestions
        /\ IF StartsWith(data, <<"q","u","i","z","_">>)
           THEN /\ user_stats' = stats
                /\ start_quiz(user_id)
           ELSE IF data = <<"s","h","o","w","_","s","t","a","t","s">>
           THEN /\ user_stats' = stats
                /\ reply' = "stats"
                /\ current_quiz' = current_quiz
           ELSE IF data = <<"h","e","l","p">>
           THEN /\ user_stats' = stats
                /\ reply' = "help"
                /\ current_quiz' = current_quiz
           ELSE IF StartsWith(data, <<"a","n","s","w","e","r","_">>)
           THEN handle_quiz_answer(data, user_id, stats)
           ELSE /\ user_stats' = stats
                /\ reply' = "none"
                /\ current_quiz' = current_quiz
        /\ UNCHANGED <<words_data, load_log, tasks, call>>

Next ==
    \/ \E u \in Users : Start(u)
    \/ \E u \in Users : Quiz(u)
    \/ \E u \in Users : Help(u)
    \/ \E u \in Users : Stats(u)
    \/ Refresh
    \/ \E u \in Users, data \in ClickData : ButtonClick(u, data)

Spec == Init /\ [][Next]_vars

----------------------------------------------------------------------------
(* Vocabulary used by the properties *)

\* user_id's counters, those of a fresh record for a user who has none yet
CountersOf(stats, user_id) ==
    IF user_id \in DOMAIN stats THEN stats[user_id] ELSE NewStats

\* the step is an answer click of user_id with payload p
AnswerStep(user_id, p) == ButtonClick(user_id, <<"a","n","s","w","e","r","_">> \o p)

\* the step is a quiz request of user_id, by command or by button
StartQuizStep(user_id) == Quiz(user_id) \/ ButtonClick(user_id, <<"q","u","i","z","_","b","e","g","i","n","n","e","r">>)

\* the outcome the grading rules give answer p on pending quiz s with index wd:
\* exact match, else an entry of wd with s's word and preposition p, else incorrect
ExpectedGrade(s, p, wd) ==
    IF p = s.correct_preposition THEN "correct"
    ELSE IF \E k \in DOMAIN wd : /\ "word" \in DOMAIN wd[k]
                                 /\ wd[k].word = s.word
                                 /\ wd[k].preposition = p
         THEN "alternative"
    ELSE "incorrect"

----------------------------------------------------------------------------
(* C2 *)

\* C2: when user u has no pending quiz, an answer click of u changes none of
\* u's four counters (a user without a record gets one with all counters 0),
\* creates no pending quiz and is answered "Start a new quiz first!".
C2_NoSessionAnswerIsNoOp ==
    [][\A u \in Users, p \in AnswerPreps :
          (u \notin DOMAIN current_quiz /\ AnswerStep(u, p))
          => /\ reply' = "no_session"
             /\ u \notin DOMAIN current_quiz'
             /\ user_stats'[u] = CountersOf(user_stats, u)]_vars

\* an answer without pending quiz was rejected for a user whose counters are
\* not all zero
C2_Witness ==
    /\ reply = "no_session"
    /\ \E u \in DOMAIN user_stats :
          /\ u \notin DOMAIN current_quiz
          /\ user_stats[u].total_questions > 0
          /\ user_stats[u].correct_answers > 0

----------------------------------------------------------------------------
(* C5 *)

\* C5: in every reachable state every statistics record has
\* best_streak >= streak and four non-negative counters.
C5_StreakInvariant ==
    \A u \in DOMAIN user_stats :
        /\ user_stats[u].best_streak >= user_stats[u].streak
        /\ user_stats[u].total_questions >= 0
        /\ user_stats[u].correct_answers >= 0
        /\ user_stats[u].streak >= 0
        /\ user_stats[u].best_streak >= 0

\* a streak was reset to 0 below the best streak by a second, wrong answer
C5_Witness ==
    \E u \in DOMAIN user_stats :
        /\ user_stats[u].best_streak = 1
        /\ user_stats[u].streak = 0
        /\ user_stats[u].total_questions = 2

----------------------------------------------------------------------------
(* C9 *)

\* C9: a load whose fetch raised (at startup or on /refresh) returns the
\* built-in fallback dict, which is not empty, and prints the error report;
\* the error report is printed for no other load.
C9_FallbackOnFetchFailure ==
    /\ load_log = "error" => (words_data = FallbackData /\ DOMAIN words_data # {})
    /\ words_data = FallbackData => load_log = "error"

\* a /refresh whose fetch raised completed, after a load that succeeded
C9_Witness ==
    /\ load_log = "error"
    /\ reply = "refreshed"
    /\ Cardinality(DOMAIN words_data) = 1
    /\ current_quiz # EmptyDict

----------------------------------------------------------------------------
(* C1 *)

\* C1: an answer click of user u that finds a pending quiz ends with no
\* pending quiz for u, and an answer click of u that finds none is answered
\* "Start a new quiz first!" and leaves u's four counters as they were.
C1_SessionSingleUse ==
    [][\A u \in Users, p \in AnswerPreps :
          /\ (u \in DOMAIN current_quiz /\ AnswerStep(u, p))
             => u \notin DOMAIN current_quiz'
          /\ (u \notin DOMAIN current_quiz /\ AnswerStep(u, p))
             => /\ reply' = "no_session"
                /\ user_stats'[u] = CountersOf(user_stats, u)]_vars

----------------------------------------------------------------------------
(* C3 *)

\* C3: an answer click p of user u on pending quiz s is graded correct when
\* p = s.correct_preposition, else correct-via-alternative when the index at
\* that time has an entry with s's word and preposition p, else incorrect.
C3_GradingOutcome ==
    [][\A u \in Users, p \in AnswerPreps :
          (u \in DOMAIN current_quiz /\ AnswerStep(u, p))
          => reply' = ExpectedGrade(current_quiz[u], p, words_data)]_vars

----------------------------------------------------------------------------
(* C4 *)

\* the counters new follow from old by one grading with outcome g
GradedTransition(old, new, g) ==
    /\ new.total_questions = old.total_questions + 1
    /\ g \in {"correct", "alternative"}
       => /\ new.correct_answers = old.correct_answers + 1
          /\ new.streak = old.streak + 1
          /\ new.best_streak = IF old.best_streak > new.streak
                               THEN old.best_streak ELSE new.streak
    /\ g = "incorrect"
       => /\ new.correct_answers = old.correct_answers
          /\ new.best_streak = old.best_streak
          /\ new.streak = 0

\* C4: an answer click of user u that finds a pending quiz adds exactly 1 to
\* total_questions; when the answer is correct (exactly or via an
\* alternative) correct_answers and streak grow by 1 and best_streak becomes
\* the larger of itself and the new streak; when it is incorrect
\* correct_answers and best_streak stay and streak becomes 0.
C4_StatisticsTransition ==
    [][\A u \in Users, p \in AnswerPreps :
          (u \in DOMAIN current_quiz /\ AnswerStep(u, p))
          => GradedTransition(CountersOf(user_stats, u), user_stats'[u],
                              ExpectedGrade(current_quiz[u], p, words_data))]_vars

----------------------------------------------------------------------------
(* C6 *)

\* C6: no step lowers a user's best_streak, and after an incorrect answer of
\* user u on a pending quiz u's streak is 0.
C6_StreakMonotonicity ==
    [][\A u \in Users :
          /\ u \in DOMAIN user_stats
             => /\ u \in DOMAIN user_stats'
                /\ user_stats'[u].best_streak >= user_stats[u].best_streak
          /\ \A p \in AnswerPreps :
                (/\ u \in DOMAIN current_quiz
                 /\ AnswerStep(u, p)
                 /\ ExpectedGrade(current_quiz[u], p, words_data) = "incorrect")
                => user_stats'[u].streak = 0]_vars

----------------------------------------------------------------------------
(* C7 *)

\* C7: a /refresh, whether its load succeeded or fell back, leaves every
\* pending quiz and every statistics record as it was; and an answer click
\* that follows the refresh is graded against the pending quiz's own
\* correct_preposition, the pending quiz then being deleted.
C7_RefreshKeepsSessions ==
    [][/\ Refresh => (current_quiz' = current_quiz /\ user_stats' = user_stats)
       /\ \A u \in Users, p \in AnswerPreps :
             (/\ reply = "refreshed"
              /\ u \in DOMAIN current_quiz
              /\ AnswerStep(u, p))
             => /\ p = current_quiz[u].correct_preposition <=> reply' = "correct"
                /\ u \notin DOMAIN current_quiz']_vars

----------------------------------------------------------------------------
(* C8 *)

\* C8: a quiz request of user u on a non-empty index ends with a pending quiz
\* for u whose word and correct_preposition are those of one entry of the
\* index.
C8_StartQuizCreatesSession ==
    [][\A u \in Users :
          (DOMAIN words_data # {} /\ StartQuizStep(u))
          => /\ u \in DOMAIN current_quiz'
             /\ \E k \in DOMAIN words_data :
                   /\ "word" \in DOMAIN words_data[k]
                   /\ current_quiz'[u].word = words_data[k].word
                   /\ current_quiz'[u].correct_preposition
                        = words_data[k].preposition]_vars

----------------------------------------------------------------------------
(* C10 *)

\* C10: with the built-in fallback as index, a quiz request of user u creates
\* a pending quiz with the fallback entry's preposition, and an answer click
\* on a pending quiz is graded to completion: total_questions grows by 1,
\* one of the three outcomes is reported and the pending quiz is deleted.
C10_QuizWorksOnFallback ==
    [][\A u \in Users :
          /\ (words_data = FallbackData /\ StartQuizStep(u))
             => /\ reply' = "quiz"
                /\ u \in DOMAIN current_quiz'
                /\ \E k \in DOMAIN words_data :
                      current_quiz'[u].correct_preposition = words_data[k].preposition
          /\ \A p \in AnswerPreps :
                (/\ words_data = FallbackData
                 /\ u \in DOMAIN current_quiz
                 /\ AnswerStep(u, p))
                => /\ user_stats'[u].total_questions
                        = CountersOf(user_stats, u).total_questions + 1
                   /\ reply' \in {"correct", "alternative", "incorrect"}
                   /\ u \notin DOMAIN current_quiz']_vars

----------------------------------------------------------------------------
(* C11 *)

\* the index was loaded from the source and quizzes can be drawn from it
IndexUsable == DOMAIN words_data # {} /\ ~AlternativesRaise(words_data)

\* C11: every event is handled without raising and is answered with a message
\* (stated for an index loaded from the source with at least one entry): the
\* commands /start, /quiz, /help, /stats, /refresh and the clicks on the
\* new-quiz, show-stats, help and answer buttons.
C11_EveryEventAnswered ==
    [][IndexUsable =>
         \A u \in Users :
            /\ Start(u) => reply' = "welcome"
            /\ Quiz(u) => reply' = "quiz"
            /\ Help(u) => reply' = "help"
            /\ Stats(u) => reply' = "stats"
            /\ Refresh => reply' = "refreshed"
            /\ ButtonClick(u, <<"q","u","i","z","_","b","e","g","i","n","n","e","r">>) => reply' = "quiz"
            /\ ButtonClick(u, <<"s","h","o","w","_","s","t","a","t","s">>) => reply' = "stats"
            /\ ButtonClick(u, <<"h","e","l","p">>) => reply' = "help"
            /\ \A p \in AnswerPreps :
                  AnswerStep(u, p)
                  => reply' \in {"no_session", "correct", "alternative",
                                 "incorrect"}]_vars

----------------------------------------------------------------------------
(* C17 *)

\* C17: on an empty index a quiz request of user u is answered with an error
\* message instead of raising, and leaves u's pending quiz and every counter
\* as they were.
C17_EmptyVocabularyReported ==
    [][\A u \in Users :
          (DOMAIN words_data = {} /\ StartQuizStep(u))
          => /\ reply' # "raised"
             /\ current_quiz' = current_quiz
             /\ \A v \in Users :
                   CountersOf(user_stats', v) = CountersOf(user_stats, v)]_vars

----------------------------------------------------------------------------
(* C20 *)

\* C20: in every reachable state every statistics record has
\* streak <= correct_answers <= total_questions and
\* best_streak <= correct_answers, so the accuracy
\* correct_answers / max(total_questions, 1) is at most 100%.
C20_CountersOrdered ==
    \A u \in DOMAIN user_stats :
        LET st == user_stats[u]
            asked == IF st.total_questions > 1 THEN st.total_questions ELSE 1
        IN  /\ st.streak <= st.correct_answers
            /\ st.correct_answers <= st.total_questions
            /\ st.best_streak <= st.correct_answers
            /\ st.correct_answers * 100 <= asked * 100

\* a user answered two questions, the last one correctly and the first not
C20_Witness ==
    \E u \in DOMAIN user_stats :
        /\ user_stats[u].total_questions = 2
        /\ user_stats[u].correct_answers = 1
        /\ user_stats[u].streak = 1

----------------------------------------------------------------------------
(* parse_preposition_case examined on its own: one call on each input *)

\* the longest preposition string of a round-trip input
MaxPrepLen == 4

\* the longest free-form input
MaxParseLen == 5

StringsOver(alphabet, n) == UNION {[1..k -> alphabet] : k \in 0..n}

\* letters of both cases, the space and the separator sign
PrepAlphabet == {"a", "B", " ", "+"}

CaseLetters == {"A", "D", "G"}

\* " + ", "+" and a separator with extra whitespace around it
Separators == {<<" ","+"," ">>, <<"+">>, <<" "," ","+"," "," ">>}

RoundTripInputs ==
    {p \o sep \o <<c>> :
        p \in StringsOver(PrepAlphabet, MaxPrepLen), sep \in Separators, c \in CaseLetters}

FreeInputs == StringsOver({"a", "D", " ", "+"}, MaxParseLen)

\* prep_string: a str, or None
ParseInputs == RoundTripInputs \cup FreeInputs \cup {None}

ParseInit ==
    /\ words_data = EmptyDict
    /\ current_quiz = EmptyDict
    /\ user_stats = EmptyDict
    /\ load_log = "none"
    /\ reply = "none"
    /\ tasks = NoTasks
    /\ call \in {[fn |-> "parse", arg |-> s, done |-> FALSE, result |-> Empty] :
                    s \in ParseInputs}

\* self.parse_preposition_case(prep_string) runs to its return
ParseCall ==
    /\ call.fn = "parse"
    /\ ~call.done
    /\ call' = [call EXCEPT !.done = TRUE,
                            !.result = parse_preposition_case(call.arg)]
    /\ UNCHANGED <<words_data, current_quiz, user_stats, load_log, reply, tasks>>

ParseNext == ParseCall

ParseSpec == ParseInit /\ [][ParseNext]_vars

Parsed == call.fn = "parse" /\ call.done

EndsWith(s, t) == Len(s) >= Len(t) /\ SubSeq(s, Len(s) - Len(t) + 1, Len(s)) = t

\* the spec's caseName
CaseName(c) ==
    CASE c = "A" -> <<"a","c","c","u","s","a","t","i","v","e">>
      [] c = "D" -> <<"d","a","t","i","v","e">>
      [] c = "G" -> <<"g","e","n","i","t","i","v","e">>

\* the input parsed is p + sep + c for the p that PrepOf(sep) gives
ParsedForm(sep, c) ==
    Parsed /\ call.arg # None /\ EndsWith(call.arg, sep \o <<c>>)

PrepOf(sep) == SubSeq(call.arg, 1, Len(call.arg) - Len(sep) - 1)

\* a preposition as the parser can return it: not empty, without '+', without
\* whitespace at either end and without two spaces in a row
CleanPrep(p) ==
    /\ p # Empty
    /\ \A i \in 1..Len(p) : p[i] # "+"
    /\ p[1] # " " /\ p[Len(p)] # " "
    /\ \A i \in 1..(Len(p) - 1) : ~(p[i] = " " /\ p[i + 1] = " ")

PlusCount(s) == Cardinality({i \in 1..Len(s) : s[i] = "+"})

CaseNames == {<<"a","c","c","u","s","a","t","i","v","e">>, <<"d","a","t","i","v","e">>, <<"g","e","n","i","t","i","v","e">>, <<"u","n","k","n","o","w","n">>}

\* C15: parse returns null for an empty or null input and for every input with
\* no '+' sign or with two or more; it returns a pair only when there is
\* exactly one separator, and then the preposition is not empty and the case
\* is accusative, dative, genitive or unknown.
C15_ParserRejection ==
    Parsed =>
      /\ (call.arg = Empty \/ call.arg = None \/ PlusCount(call.arg) # 1)
            => call.result = <<None, None>>
      /\ call.result # <<None, None>>
            => /\ PlusCount(call.arg) = 1
               /\ call.result[1] # Empty
               /\ call.result[2] \in CaseNames

----------------------------------------------------------------------------
(* load_words_from_airtable examined on its own: one load of each fetched
   list, then the options start_quiz builds from one entry of the result *)

\* the pair of Rec1 again, with another example
Rec6 == [id |-> "rec6",
         fields |-> [f \in {"Word", "Preposition", "Example DE"} |->
                       CASE f = "Word" -> PyStr(<<"d","e","n","k","e","n">>)
                         [] f = "Preposition" -> PyStr(<<"a","n"," ","+"," ","A">>)
                         [] f = "Example DE" -> PyStr(<<"D","e","n","k"," ","a","n"," ","m","i","c","h",".">>)]]

\* two different pairs whose keys are both "a_b_c"
Rec7 == [id |-> "rec7",
         fields |-> [f \in {"Word", "Preposition"} |->
                       CASE f = "Word" -> PyStr(<<"a","_","b">>)
                         [] f = "Preposition" -> PyStr(<<"c"," ","+"," ","A">>)]]

Rec8 == [id |-> "rec8",
         fields |-> [f \in {"Word", "Preposition"} |->
                       CASE f = "Word" -> PyStr(<<"a">>)
                         [] f = "Preposition" -> PyStr(<<"b","_","c"," ","+"," ","A">>)]]

\* a Word of whitespace only
Rec9 == [id |-> "rec9",
         fields |-> [f \in {"Word", "Preposition"} |->
                       CASE f = "Word" -> PyStr(<<" ">>)
                         [] f = "Preposition" -> PyStr(<<"a","n"," ","+"," ","A">>)]]

LoadRecordPool == RecordPool \cup {Rec6, Rec7, Rec8, Rec9}

LoadFetches ==
    {[ok |-> FALSE]} \cup
    {[ok |-> TRUE, records |-> r] :
        r \in UNION {[1..n -> LoadRecordPool] : n \in 0..MaxRecords}}

\* the outcomes of random.shuffle on a list of n elements
Shuffles(n) == {f \in [1..n -> 1..n] : \A i, j \in 1..n : f[i] = f[j] => i = j}

\* all_options after lines 335-336
all_options(word_data, shuffle) ==
    LET listed == <<word_data.preposition>> \o word_data.wrong_options
    IN  [i \in 1..Len(listed) |-> listed[shuffle[i]]]

NoReport == [words_data |-> EmptyDict, skipped_count |-> 0, total |-> 0, failed |-> FALSE]

LoadInit ==
    /\ words_data = EmptyDict
    /\ current_quiz = EmptyDict
    /\ user_stats = EmptyDict
    /\ load_log = "none"
    /\ reply = "none"
    /\ tasks = NoTasks
    /\ call \in {[fn |-> "load", fetch |-> f, rnd |-> r, done |-> FALSE,
                  result |-> NoReport, shown |-> "no", key |-> Empty,
                  options |-> Empty] :
                    f \in LoadFetches, r \in RandomDraws}

\* self.load_words_from_airtable() runs to its return
LoadCall ==
    /\ call.fn = "load"
    /\ ~call.done
    /\ call' = [call EXCEPT !.done = TRUE,
                            !.result = LoadReport(call.fetch, call.rnd)]
    /\ UNCHANGED <<words_data, current_quiz, user_stats, load_log, reply, tasks>>

\* lines 326-336 of start_quiz on the loaded dict: the entry drawn and the
\* shuffled options, or KeyError at line 328
ShowOptions ==
    /\ call.fn = "load"
    /\ call.done
    /\ call.shown = "no"
    /\ \E unique_key \in DOMAIN call.result.words_data :
          LET word_data == call.result.words_data[unique_key]
          IN  IF StartQuizRaises(word_data)
              THEN call' = [call EXCEPT !.shown = "raised", !.key = unique_key]
              ELSE \E shuffle \in Shuffles(1 + Len(word_data.wrong_options)) :
                      call' = [call EXCEPT !.shown = "yes", !.key = unique_key,
                                           !.options = all_options(word_data, shuffle)]
    /\ UNCHANGED <<words_data, current_quiz, user_stats, load_log, reply, tasks>>

LoadNext == LoadCall \/ ShowOptions

LoadSpec == LoadInit /\ [][LoadNext]_vars

Loaded == call.fn = "load" /\ call.done

\* a required field that is missing, None, or blank once trimmed
Blank(fields, name) ==
    \/ name \notin DOMAIN fields
    \/ fields[name].kind = "none"
    \/ fields[name].kind = "str" /\ \A i \in 1..Len(fields[name].val) : fields[name].val[i] = " "

\* a record the load has to skip
Malformed(record) ==
    \/ Blank(record.fields, "Word")
    \/ Blank(record.fields, "Preposition")
    \/ parse_preposition_case(Strip(record.fields["Preposition"].val)) = <<None, None>>

\* the (word, preposition) pair of a record that is not malformed
PairOf(record) ==
    <<Strip(record.fields["Word"].val),
      parse_preposition_case(Strip(record.fields["Preposition"].val))[1]>>

\* the positions of the accepted records of the fetched list
AcceptedAt == {i \in 1..Len(call.fetch.records) : ~Malformed(call.fetch.records[i])}

\* C12: after a successful load the index holds exactly one entry per distinct
\* (word, preposition) pair of the accepted records, and the entry is that of
\* the last accepted record with the pair; records with different pairs never
\* overwrite each other.
C12_OneEntryPerPair ==
    (Loaded /\ call.fetch.ok) =>
      LET records == call.fetch.records
          wd      == call.result.words_data
          pairs   == {PairOf(records[i]) : i \in AcceptedAt}
      IN  /\ Cardinality(DOMAIN wd) = Cardinality(pairs)
          /\ \A pair \in pairs :
                LET last == CHOOSE i \in AcceptedAt :
                               /\ PairOf(records[i]) = pair
                               /\ \A j \in AcceptedAt :
                                     PairOf(records[j]) = pair => j <= i
                IN  \E key \in DOMAIN wd :
                       /\ wd[key].word = pair[1]
                       /\ wd[key].preposition = pair[2]
                       /\ wd[key].record_id = records[last].id

\* C13: a load of a fetched list never aborts on a malformed record: every
\* record with a missing or blank Word or Preposition or with an unparseable
\* notation is skipped and counted once, every other record is inserted under
\* its key, the built index is returned and not the fallback, and skipped
\* count + accepted records = records seen.
C13_MalformedSkippedAndCounted ==
    (Loaded /\ call.fetch.ok) =>
      LET records   == call.fetch.records
          report    == call.result
          malformed == (1..Len(records)) \ AcceptedAt
      IN  /\ ~report.failed
          /\ report.total = Len(records)
          /\ report.skipped_count = Cardinality(malformed)
          /\ report.skipped_count + Cardinality(AcceptedAt) = report.total
          /\ \A i \in AcceptedAt :
                PairOf(records[i])[1] \o <<"_">> \o PairOf(records[i])[2]
                   \in DOMAIN report.words_data
          /\ \A key \in DOMAIN report.words_data :
                \E i \in AcceptedAt :
                   /\ report.words_data[key].record_id = records[i].id
                   /\ report.words_data[key].word = PairOf(records[i])[1]

\* one record of two was skipped for its blank Word, the other is in the index
C13_Witness ==
    /\ Loaded
    /\ call.fetch.ok
    /\ call.fetch.records = <<Rec9, Rec3>>
    /\ call.result.skipped_count = 1
    /\ DOMAIN call.result.words_data = {<<"w","a","r","t","e","n","_","a","u","f">>}

\* C16: in every entry of every load result, the fallback included, the
\* distractor list does not contain the entry's preposition, has no duplicate
\* and has min(3, |pool minus the preposition|) elements; the options
\* start_quiz shows contain the correct preposition exactly once and are
\* 1 + |distractors| distinct options.
C16_DistractorsDisjoint ==
    Loaded =>
      /\ \A key \in DOMAIN call.result.words_data :
            LET word_data == call.result.words_data[key]
                wrong     == word_data.wrong_options
            IN  /\ \A i \in 1..Len(wrong) : wrong[i] # word_data.preposition
                /\ \A i, j \in 1..Len(wrong) : wrong[i] = wrong[j] => i = j
                /\ Len(wrong) = Min(3, Cardinality(all_preps \ {word_data.preposition}))
      /\ call.shown = "yes" =>
            LET word_data == call.result.words_data[call.key]
                shown     == call.options
            IN  /\ Cardinality({i \in 1..Len(shown) : shown[i] = word_data.preposition}) = 1
                /\ Len(shown) = 1 + Len(word_data.wrong_options)
                /\ Cardinality({shown[i] : i \in 1..Len(shown)}) = Len(shown)

\* the options of "warten auf" are shown with the correct one in last place
C16_Witness ==
    /\ Loaded
    /\ call.shown = "yes"
    /\ call.key = <<"w","a","r","t","e","n","_","a","u","f">>
    /\ Len(call.options) = 4
    /\ call.options[4] = <<"a","u","f">>

----------------------------------------------------------------------------
(* The handlers as coroutines.  Spec runs each handler to completion, as the
   Application of line 13 does (it processes one update at a time).  Here
   several updates are in flight and a handler may be resumed at each of its
   awaits in any order, which is what concurrent dispatch of the same
   handlers does.  A task records, beside its position, what it observed:
   saw and removed number the /quiz task whose session an answer handler
   found at line 409 and deleted at line 524 (0: none), live marks the /quiz
   task whose session is the stored one, loaded is the dict a refresh's load
   returned. *)

\* the updates in flight
MaxTasks == 3

Task(kind, user_id, data) ==
    [kind |-> kind, user |-> user_id, data |-> data, pc |-> "start",
     saw |-> 0, removed |-> 0, live |-> FALSE, loaded |-> EmptyDict]

\* an answer button, /quiz and /refresh, of one user
AsyncUpdates ==
    {Task("answer", "u1", <<"a","n","s","w","e","r","_","a","n">>),
     Task("quiz", "u1", Empty),
     Task("refresh", "u1", Empty)}

\* what self.verbs_table.all() does during the run
AsyncFetches ==
    {[ok |-> TRUE, records |-> <<Rec1, Rec2>>],
     [ok |-> TRUE, records |-> <<Rec3>>],
     [ok |-> FALSE]}

AsyncLoads == {LoadReport(fetch, <<1, 2, 3>>) : fetch \in AsyncFetches}

AsyncInit ==
    /\ \E report \in AsyncLoads :
          /\ words_data = report.words_data
          /\ load_log = IF report.failed THEN "error" ELSE "loaded"
    /\ current_quiz = EmptyDict
    /\ user_stats = EmptyDict
    /\ reply = "none"
    /\ call = NoCall
    /\ tasks \in [1..MaxTasks -> AsyncUpdates]

\* the /quiz task whose session is stored for user_id, 0 when there is none
LiveQuiz(ts, user_id) ==
    IF \E k \in DOMAIN ts : ts[k].kind = "quiz" /\ ts[k].user = user_id /\ ts[k].live
    THEN CHOOSE k \in DOMAIN ts : ts[k].kind = "quiz" /\ ts[k].user = user_id /\ ts[k].live
    ELSE 0

\* AnswerSync counting a question only once the answer is graded
AnswerSyncCountsGraded(wd, cq, stats, user_id, data) ==
    LET inited == InitStats(stats, user_id)
    IN  IF user_id \notin DOMAIN cq
        THEN [pc |-> "at_410", user_stats |-> inited]
        ELSE IF AlternativesRaise(wd)
        THEN [pc |-> "raised_scan", user_stats |-> inited]
        ELSE [pc |-> "at_521",
              user_stats |-> [inited EXCEPT ![user_id].total_questions = @ + 1]]

\* handle_button_click from the return of "await query.answer()" (line 383)
\* to the next await of handle_quiz_answer (line 410 or 521) or to the
\* KeyError of line 79: the position reached and self.user_stats
AnswerSync(wd, cq, stats, user_id, data) ==
    LET inited == InitStats(stats, user_id)
    IN  IF user_id \notin DOMAIN cq
        THEN [pc |-> "at_410", user_stats |-> inited]
        ELSE
        LET quiz_data   == cq[user_id]
            user_answer == Replace(data, <<"a","n","s","w","e","r","_">>, Empty)
            counted     == [inited EXCEPT ![user_id].total_questions = @ + 1]
            is_correct  == user_answer = quiz_data.correct_preposition
        IN  IF AlternativesRaise(wd)
            THEN [pc |-> "raised_scan", user_stats |-> counted]
            ELSE
            LET alternatives == get_alternative_prepositions(
                                    wd, quiz_data.word, quiz_data.correct_preposition)
                user_found_alternative ==
                    \E alt \in alternatives : alt.preposition = user_answer
                outcome == Grade(is_correct, user_found_alternative)
            IN  [pc |-> "at_521",
                 user_stats |-> [counted EXCEPT ![user_id] =
                                    IF outcome = "incorrect" THEN StreakReset(@)
                                    ELSE StreakUpdate(@)]]

\* refresh_words_data updating the dict in place (self.words_data.update(new))
refresh_words_dataInPlace(old, loaded) ==
    [k \in DOMAIN old \cup DOMAIN loaded |->
        IF k \in DOMAIN loaded THEN loaded[k] ELSE old[k]]

\* self.words_data after refresh_words_data, loaded being what the load returned
refresh_words_data(old, loaded) == loaded

\* handle_button_click runs to "await query.answer()"
AnswerAck(i) ==
    /\ tasks[i].kind = "answer"
    /\ tasks[i].pc = "start"
    /\ tasks' = [tasks EXCEPT ![i].pc = "at_383"]
    /\ UNCHANGED <<words_data, current_quiz, user_stats, load_log, reply, call>>

\* resumed at line 383: statistics, the session check, the grading
AnswerGrade(i) ==
    LET t    == tasks[i]
        sync == AnswerSync(words_data, current_quiz, user_stats, t.user, t.data)
    IN  /\ t.kind = "answer"
        /\ t.pc = "at_383"
        /\ user_stats' = sync.user_stats
        /\ tasks' = [tasks EXCEPT ![i].pc = sync.pc,
                                  ![i].saw = IF t.user \in DOMAIN current_quiz
                                             THEN LiveQuiz(tasks, t.user) ELSE 0]
        /\ UNCHANGED <<words_data, current_quiz, load_log, reply, call>>

\* resumed at line 410: return
AnswerNoSession(i) ==
    /\ tasks[i].kind = "answer"
    /\ tasks[i].pc = "at_410"
    /\ tasks' = [tasks EXCEPT ![i].pc = "done"]
    /\ UNCHANGED <<words_data, current_quiz, user_stats, load_log, reply, call>>

\* resumed at line 521: "del self.current_quiz[user_id]", KeyError when the
\* key is gone
AnswerDelete(i) ==
    LET t == tasks[i]
        k == LiveQuiz(tasks, t.user)
    IN  /\ t.kind = "answer"
        /\ t.pc = "at_521"
        /\ IF t.user \in DOMAIN current_quiz
           THEN /\ current_quiz' = DictDel(current_quiz, t.user)
                /\ tasks' = [j \in DOMAIN tasks |->
                               IF j = i THEN [t EXCEPT !.pc = "done", !.removed = k]
                               ELSE IF j = k THEN [tasks[j] EXCEPT !.live = FALSE]
                               ELSE tasks[j]]
           ELSE /\ current_quiz' = current_quiz
                /\ tasks' = [tasks EXCEPT ![i].pc = "raised_del"]
        /\ UNCHANGED <<words_data, user_stats, load_log, reply, call>>

\* /quiz: start_quiz runs to its await (line 376), or raises at line 326 or 328
QuizBuild(i) ==
    LET t == tasks[i]
    IN  /\ t.kind = "quiz"
        /\ t.pc = "start"
        /\ IF DOMAIN words_data = {}
           THEN /\ current_quiz' = current_quiz
                /\ tasks' = [tasks EXCEPT ![i].pc = "raised"]
           ELSE \E unique_key \in DOMAIN words_data :
                   LET word_data == words_data[unique_key]
                   IN  IF StartQuizRaises(word_data)
                       THEN /\ current_quiz' = current_quiz
                            /\ tasks' = [tasks EXCEPT ![i].pc = "raised"]
                       ELSE /\ current_quiz' =
                                 DictSet(current_quiz, t.user, Snapshot(word_data))
                            /\ tasks' = [j \in DOMAIN tasks |->
                                 IF j = i THEN [t EXCEPT !.pc = "at_376", !.live = TRUE]
                                 ELSE IF tasks[j].kind = "quiz" /\ tasks[j].user = t.user
                                 THEN [tasks[j] EXCEPT !.live = FALSE]
                                 ELSE tasks[j]]
        /\ UNCHANGED <<words_data, user_stats, load_log, reply, call>>

\* resumed at line 376: return
QuizDone(i) ==
    /\ tasks[i].kind = "quiz"
    /\ tasks[i].pc = "at_376"
    /\ tasks' = [tasks EXCEPT ![i].pc = "done"]
    /\ UNCHANGED <<words_data, current_quiz, user_stats, load_log, reply, call>>

\* /refresh: refresh_data runs to its first await (line 312)
RefreshAnnounce(i) ==
    /\ tasks[i].kind = "refresh"
    /\ tasks[i].pc = "start"
    /\ tasks' = [tasks EXCEPT ![i].pc = "at_312"]
    /\ UNCHANGED <<words_data, current_quiz, user_stats, load_log, reply, call>>

\* resumed at line 312: the load (it has no await) and the assignment of
\* line 201, up to the await of line 314
RefreshSwap(i) ==
    /\ tasks[i].kind = "refresh"
    /\ tasks[i].pc = "at_312"
    /\ \E report \in AsyncLoads :
          /\ words_data' = refresh_words_data(words_data, report.words_data)
          /\ load_log' = IF report.failed THEN "error" ELSE "loaded"
          /\ tasks' = [tasks EXCEPT ![i].pc = "at_314",
                                    ![i].loaded = report.words_data]
    /\ UNCHANGED <<current_quiz, user_stats, reply, call>>

\* resumed at line 314: return
RefreshDone(i) ==
    /\ tasks[i].kind = "refresh"
    /\ tasks[i].pc = "at_314"
    /\ tasks' = [tasks EXCEPT ![i].pc = "done"]
    /\ UNCHANGED <<words_data, current_quiz, user_stats, load_log, reply, call>>

AsyncNext ==
    \/ \E i \in DOMAIN tasks : AnswerAck(i)
    \/ \E i \in DOMAIN tasks : AnswerGrade(i)
    \/ \E i \in DOMAIN tasks : AnswerNoSession(i)
    \/ \E i \in DOMAIN tasks : AnswerDelete(i)
    \/ \E i \in DOMAIN tasks : QuizBuild(i)
    \/ \E i \in DOMAIN tasks : QuizDone(i)
    \/ \E i \in DOMAIN tasks : RefreshAnnounce(i)
    \/ \E i \in DOMAIN tasks : RefreshSwap(i)
    \/ \E i \in DOMAIN tasks : RefreshDone(i)

AsyncSpec == AsyncInit /\ [][AsyncNext]_vars

AnswerTasks(user_id) ==
    {i \in DOMAIN tasks : tasks[i].kind = "answer" /\ tasks[i].user = user_id}

CompleteIndexes == {report.words_data : report \in AsyncLoads}

\* C19: a refresh replaces the index by the complete dict its load built, in
\* one assignment; whenever start_quiz or the alternative scan of a grading
\* reads the index, under any interleaving with refreshes, it is a complete
\* load result, the old one or the new one.
C19_RefreshSwapsCompleteIndex ==
    [][/\ words_data' \in CompleteIndexes
       /\ words_data' # words_data
             => \E i \in DOMAIN tasks :
                   /\ tasks[i].kind = "refresh"
                   /\ tasks[i].pc = "at_312"
                   /\ tasks'[i].pc = "at_314"
                   /\ words_data' = tasks'[i].loaded
       /\ \A i \in DOMAIN tasks :
             (QuizBuild(i) \/ AnswerGrade(i)) => words_data \in CompleteIndexes]_vars

\* a refresh has put a new index in place while a quiz built on the old one
\* waits at its await
C19_Witness ==
    \E i, j \in DOMAIN tasks :
       /\ tasks[i].kind = "refresh"
       /\ tasks[i].pc = "at_314"
       /\ words_data = tasks[i].loaded
       /\ tasks[j].kind = "quiz"
       /\ tasks[j].pc = "at_376"
       /\ "u1" \in DOMAIN current_quiz
       /\ current_quiz["u1"].word \o <<"_">> \o current_quiz["u1"].correct_preposition
             \notin DOMAIN words_data

----------------------------------------------------------------------------
(* C21 *)

\* the step is an event of user_id other than /refresh
UserEvent(user_id) ==
    \/ Start(user_id)
    \/ Quiz(user_id)
    \/ Help(user_id)
    \/ Stats(user_id)
    \/ \E data \in ClickData : ButtonClick(user_id, data)

\* C21: an event of user u (start, quiz, stats, help, a new-quiz click, an
\* answer click) changes neither the pending quiz nor any counter of another
\* user v and does not change the index; only a refresh changes the index.
C21_PerUserIsolation ==
    [][/\ \A u \in Users :
             \/ /\ words_data' = words_data
                /\ \A v \in Users \ {u} :
                      /\ (v \in DOMAIN current_quiz') = (v \in DOMAIN current_quiz)
                      /\ v \in DOMAIN current_quiz
                            => current_quiz'[v] = current_quiz[v]
                      /\ CountersOf(user_stats', v) = CountersOf(user_stats, v)
             \/ ~UserEvent(u)
       /\ (words_data' = words_data \/ Refresh)]_vars

\* u1's answer has been graded and its quiz deleted while u2's quiz is pending
C21_Witness ==
    /\ "u2" \in DOMAIN current_quiz
    /\ "u1" \notin DOMAIN current_quiz
    /\ reply \in {"correct", "alternative", "incorrect"}
    /\ CountersOf(user_stats, "u1").total_questions = 1
    /\ CountersOf(user_stats, "u2").total_questions = 0

----------------------------------------------------------------------------
(* The serial run with its history: call keeps, per user, how many times
   start_quiz has been entered for the user, counted up to MaxQuestions (no
   user has more questions counted than that) *)

NoHistory == [fn |-> "history", quiz_starts |-> [u \in Users |-> 0]]

\* one more start_quiz of user_id
Started(user_id) ==
    [call EXCEPT !.quiz_starts[user_id] = Min(@ + 1, MaxQuestions)]

HistoryInit ==
    /\ \E o \in LoadOutcomes :
          /\ words_data = o.words_data
          /\ load_log = IF o.failed THEN "error" ELSE "loaded"
    /\ current_quiz = EmptyDict
    /\ user_stats = EmptyDict
    /\ reply = "none"
    /\ tasks = NoTasks
    /\ call = NoHistory

\* /quiz
HistoryQuiz(user_id) ==
    /\ start_quiz(user_id)
    /\ call' = Started(user_id)
    /\ UNCHANGED <<words_data, user_stats, load_log, tasks>>

\* a click on "New Quiz" (handle_button_click, the quiz_ branch)
HistoryNewQuizClick(user_id) ==
    /\ user_stats' = InitStats(user_stats, user_id)
    /\ start_quiz(user_id)
    /\ call' = Started(user_id)
    /\ UNCHANGED <<words_data, load_log, tasks>>

\* a click on an answer button (handle_button_click, the answer_ branch)
HistoryAnswer(user_id, p) ==
    /\ user_id \in DOMAIN current_quiz => QuestionsCounted < MaxQuestions
    /\ handle_quiz_answer(<<"a","n","s","w","e","r","_">> \o p, user_id, InitStats(user_stats, user_id))
    /\ UNCHANGED <<words_data, load_log, tasks, call>>

\* /refresh
HistoryRefresh ==
    /\ \E o \in LoadOutcomes :
          /\ words_data' = o.words_data
          /\ load_log' = IF o.failed THEN "error" ELSE "loaded"
    /\ reply' = "refreshed"
    /\ UNCHANGED <<current_quiz, user_stats, tasks, call>>

HistoryNext ==
    \/ \E u \in Users : HistoryQuiz(u)
    \/ \E u \in Users : HistoryNewQuizClick(u)
    \/ \E u \in Users, p \in AnswerPreps : HistoryAnswer(u, p)
    \/ HistoryRefresh

HistorySpec == HistoryInit /\ [][HistoryNext]_vars

\* C22: a session is graded at most once and start_quiz counts nothing, so
\* in every state of a serial run the questions counted for a user are at
\* most the start_quiz events of that user so far.
C22_QuestionsAtMostQuizStarts ==
    \A u \in Users :
       CountersOf(user_stats, u).total_questions <= call.quiz_starts[u]

====
